---------------------------- MODULE Spec2Model ----------------------------
(***************************************************************************)
(* Model of the data-access facade ModelAbstract (src/unnamed/part_000):   *)
(* the facade's fields, the store it talks to, and every invocation of an  *)
(* operation as a numbered call whose store requests settle in any order.  *)
(* One action is one JavaScript turn: a synchronous method body, or one    *)
(* store response together with the promise reactions it triggers.         *)
(***************************************************************************)
EXTENDS Integers, Sequences, FiniteSets, TLC

(***************************************************************************)
(* Bounds of the model.                                                    *)
(***************************************************************************)
MaxCalls == 2
MaxIdx == 2
MaxOps == 1
MaxDocs == 2
MaxFailures == 2

(***************************************************************************)
(* JavaScript values.                                                      *)
(***************************************************************************)
Null == "null"
Undefined == "undefined"
CollectionNames == {"users"}

\* `if (v)` on a string-valued property
Truthy(v) == v \notin {Null, Undefined, ""}

NoVal == [t |-> "none"]
NullVal == [t |-> "null"]
ListVal(s) == [t |-> "list", v |-> s]
DocVal(d) == [t |-> "doc", v |-> d]
NumVal(n) == [t |-> "num", v |-> n]

\* an error object: its class, its code property and its message
ErrorVal(kind, code, message) ==
    [t |-> "error", kind |-> kind, code |-> code, message |-> message]
\* what dereferencing the unbound (null) collection handle throws
TypeErrorVal == ErrorVal("TypeError", Undefined, <<"Cannot read property of null">>)
\* a failure the store reports for a request on `target`
StoreError(request, target) ==
    ErrorVal("MongoError", "50", <<request, " failed: ", target>>)
\* the store's duplicate-key failure, naming the unique index that was violated
DuplicateKey(index) ==
    ErrorVal("MongoError", "11000", <<"E11000 duplicate key error index: ", index>>)

Pending == [state |-> "pending", value |-> NoVal]
Resolved(v) == [state |-> "resolved", value |-> v]
Rejected(e) == [state |-> "rejected", value |-> e]
\* a synchronous outcome of a method that returns no promise
Threw(e) == [state |-> "threw", value |-> e]
Returned(v) == [state |-> "returned", value |-> v]
NotCalled == [state |-> "none", value |-> NoVal]

\* new ModelError(message, code)
ModelError(message, code) == ErrorVal("ModelError", code, message)

(***************************************************************************)
(* Index declarations a subclass constructor may assign to _indexes.       *)
(***************************************************************************)
Declarations ==
    << [fields |-> <<"email", 1>>, options |-> [name |-> "email_1", unique |-> TRUE]],
       [fields |-> <<"name", 1>>, options |-> [name |-> "name_1", unique |-> FALSE]],
       [fields |-> <<"age", -1>>, options |-> [name |-> "age_-1", unique |-> FALSE]],
       [fields |-> <<"city", 1>>, options |-> [name |-> "city_1", unique |-> FALSE]] >>

DeclNames(n) == {Declarations[k].options.name : k \in 1..n}

Calls == 1..MaxCalls

\* the instrumentation sinks setDebugger may install; "bare" has no log method
Sinks == {"sinkA", "sinkB", "bare"}

VARIABLES
    collectionName,  \* this._collectionName
    indexes,         \* this._indexes: [isNull, list]
    collection,      \* this._collection: Null or the bound collection's name
    debugger,        \* this._debugger
    initResult,      \* what the latest init() call did: threw or returned
    storeIndexes,    \* names of the indexes that exist on the store
    storeDocs,       \* the documents of the store's collection
    nCalls,          \* number of operations invoked so far
    op,              \* op[c]: the operation call c invoked
    handle,          \* handle[c]: this._collection when call c was invoked
    args,            \* args[c]: the arguments call c works on
    promise,         \* promise[c]: the promise call c returned
    timer,           \* timer[c]: the DebugTimer of call c
    records,         \* records[c]: the records call c delivered, with their sink
    storeReq,        \* storeReq[c]: the document requests call c sent to the store
    chain,           \* chain[c]: the FindCursorChain call c returned
    existsRes,       \* existsRes[c][k]: the k-th indexExists request of call c
    createIssued,    \* createIssued[c]: the createIndex requests of call c, in order
    createRes,       \* createRes[c][j]: the j-th createIndex request of call c
    resolvedAtStart  \* resolvedAtStart[c]: the calls already resolved when c was invoked

facade == <<collectionName, indexes, collection, debugger, initResult>>
store == <<storeIndexes, storeDocs>>
invoked == <<nCalls, op, handle, resolvedAtStart>>
instr == <<timer, records>>
idxReqs == <<existsRes, createIssued, createRes>>
docReqs == <<args, storeReq, chain>>

vars == <<facade, store, invoked, promise, instr, idxReqs, docReqs>>

(***************************************************************************)
(* constructor, and the fields a subclass constructor declares.            *)
(***************************************************************************)
IndexesChoices ==
    {[isNull |-> TRUE, list |-> <<>>]} \cup
    {[isNull |-> FALSE, list |-> SubSeq(Declarations, 1, n)] : n \in 0..MaxIdx}

NoTimer == [created |-> FALSE, category |-> "", name |-> "", message |-> <<>>,
            stops |-> 0, errors |-> 0]
NoChain == [built |-> FALSE]

InitCalls ==
    /\ nCalls = 0
    /\ op = [c \in Calls |-> "none"]
    /\ handle = [c \in Calls |-> Null]
    /\ args = [c \in Calls |-> NoVal]
    /\ promise = [c \in Calls |-> Pending]
    /\ timer = [c \in Calls |-> NoTimer]
    /\ records = [c \in Calls |-> <<>>]
    /\ storeReq = [c \in Calls |-> <<>>]
    /\ chain = [c \in Calls |-> NoChain]
    /\ existsRes = [c \in Calls |-> <<>>]
    /\ createIssued = [c \in Calls |-> <<>>]
    /\ createRes = [c \in Calls |-> <<>>]
    /\ resolvedAtStart = [c \in Calls |-> {}]

constructor ==
    /\ collectionName \in {Null} \cup CollectionNames
    /\ indexes \in IndexesChoices
    /\ collection = Null
    /\ debugger = Null
    /\ initResult = NotCalled

(***************************************************************************)
(* setDebugger(), init()                                                   *)
(***************************************************************************)
setDebugger(d) ==
    /\ debugger' = d
    /\ UNCHANGED <<collectionName, indexes, collection, initResult, store, invoked,
                   promise, instr, idxReqs, docReqs>>

initUnchecked ==
    /\ collection' = collectionName
    /\ initResult' = Returned([t |-> "this"])
    /\ UNCHANGED <<collectionName, indexes, debugger, store, invoked, promise,
                   instr, idxReqs, docReqs>>
init ==
    /\ IF ~Truthy(collectionName)
       THEN /\ initResult' = Threw(ModelError(<<"no collection name for model">>,
                                              "NO_COLLECTION_NAME"))
            /\ UNCHANGED collection
       ELSE /\ collection' = collectionName
            /\ initResult' = Returned([t |-> "this"])
    /\ UNCHANGED <<collectionName, indexes, debugger, store, invoked, promise,
                   instr, idxReqs, docReqs>>

\* call c is the next invocation: the caller sees which earlier promises resolved
Invoke(c, name) ==
    /\ c = nCalls + 1
    /\ c \in Calls
    /\ nCalls' = c
    /\ op' = [op EXCEPT ![c] = name]
    /\ handle' = [handle EXCEPT ![c] = collection]
    /\ resolvedAtStart' = [resolvedAtStart EXCEPT ![c] =
                              {d \in 1..nCalls : promise[d].state = "resolved"}]

(***************************************************************************)
(* ensureIndexes()                                                         *)
(***************************************************************************)
\* Promise.all(existsPromises) is fulfilled once every check has answered
BarrierRace(res) == \E k \in DOMAIN res : res[k] \in {"true", "false"}
ChecksFulfilled(res) == \A k \in DOMAIN res : res[k] \in {"true", "false"}

\* `if (!exists)`
MissingAlways(exists) == TRUE
MissingInverted(exists) == exists = "true"
Missing(exists) == exists = "false"

\* the arguments of the createIndex call for the declaration at `key`
CreateArgsFirst(key) ==
    [fields |-> indexes.list[1].fields, options |-> indexes.list[key].options]
CreateArgs(key) ==
    [fields |-> indexes.list[key].fields, options |-> indexes.list[key].options]

\* the then-callback of the existence checks: one createIndex per missing index
CreatePromisesAll(data, key) == [k \in 1..Len(data) |-> CreateArgs(k)]
RECURSIVE CreatePromises(_, _)
CreatePromises(data, key) ==
    IF key > Len(data) THEN <<>>
    ELSE (IF Missing(data[key]) THEN <<CreateArgs(key)>> ELSE <<>>)
            \o CreatePromises(data, key + 1)

\* the state of call c once its existence checks have all been fulfilled
ChecksThenKeepsWaiting(c, data) ==
    LET createPromises == CreatePromises(data, 1) IN
    /\ createIssued' = [createIssued EXCEPT ![c] = createPromises]
    /\ createRes' = [createRes EXCEPT ![c] = [j \in DOMAIN createPromises |-> "pending"]]
    /\ UNCHANGED promise
ChecksThen(c, data) ==
    LET createPromises == CreatePromises(data, 1) IN
    /\ createIssued' = [createIssued EXCEPT ![c] = createPromises]
    /\ createRes' = [createRes EXCEPT ![c] = [j \in DOMAIN createPromises |-> "pending"]]
    /\ promise' = [promise EXCEPT ![c] =
                     IF Len(createPromises) = 0 THEN Resolved(ListVal(<<>>)) ELSE @]

\* the catch-callbacks: reject with the error that Promise.all rejected with
ChecksCatchIgnored(error) == Pending
ChecksCatch(error) == Rejected(error)
CreatesCatchWrapped(error) == Rejected(StoreError("ensureIndexes", "createIndex"))
CreatesCatch(error) == Rejected(error)

ensureIndexes(c) ==
    /\ Invoke(c, "ensureIndexes")
    /\ IF indexes.isNull
       THEN /\ promise' = [promise EXCEPT ![c] = Resolved(ListVal(<<>>))]
            /\ UNCHANGED <<existsRes, createIssued, createRes>>
       ELSE IF Len(indexes.list) > 0 /\ collection = Null
       THEN /\ promise' = [promise EXCEPT ![c] = Rejected(TypeErrorVal)]
            /\ UNCHANGED <<existsRes, createIssued, createRes>>
       ELSE LET issued == [k \in 1..Len(indexes.list) |-> "pending"] IN
            /\ existsRes' = [existsRes EXCEPT ![c] = issued]
            /\ IF Len(issued) = 0
               THEN ChecksThen(c, issued)
               ELSE UNCHANGED <<promise, createIssued, createRes>>
    /\ UNCHANGED <<facade, store, instr, docReqs>>

\* the index requests (indexExists, createIndex) the store has failed so far;
\* the store fails at most MaxFailures of them
StoreFailures ==
    Cardinality({x \in Calls \X (1..MaxIdx) :
                    x[2] \in DOMAIN existsRes[x[1]] /\ existsRes[x[1]][x[2]] = "failed"})
    + Cardinality({x \in Calls \X (1..MaxIdx) :
                    x[2] \in DOMAIN createRes[x[1]] /\ createRes[x[1]][x[2]] = "failed"})

\* the store's answer to indexExists(name)
ExistsAnswer(name) == IF name \in storeIndexes THEN "true" ELSE "false"

\* the store answers the k-th indexExists request of call c
IndexExistsSettles(c, k, ok) ==
    /\ c \in 1..nCalls
    /\ k \in DOMAIN existsRes[c]
    /\ existsRes[c][k] = "pending"
    /\ ok \/ StoreFailures < MaxFailures
    /\ LET name == indexes.list[k].options.name
           res == [existsRes[c] EXCEPT ![k] = IF ok THEN ExistsAnswer(name) ELSE "failed"]
       IN
       /\ existsRes' = [existsRes EXCEPT ![c] = res]
       /\ IF promise[c].state # "pending" \/ createIssued[c] # <<>>
          THEN UNCHANGED <<promise, createIssued, createRes>>
          ELSE IF ~ok
          THEN /\ promise' = [promise EXCEPT ![c] =
                                ChecksCatch(StoreError("indexExists", name))]
               /\ UNCHANGED <<createIssued, createRes>>
          ELSE IF ChecksFulfilled(res)
          THEN ChecksThen(c, res)
          ELSE UNCHANGED <<promise, createIssued, createRes>>
    /\ UNCHANGED <<facade, store, invoked, instr, docReqs>>

\* the store answers the j-th createIndex request of call c
CreateIndexSettles(c, j, ok) ==
    /\ c \in 1..nCalls
    /\ j \in DOMAIN createRes[c]
    /\ createRes[c][j] = "pending"
    /\ ok \/ StoreFailures < MaxFailures
    /\ LET name == createIssued[c][j].options.name
           res == [createRes[c] EXCEPT ![j] = IF ok THEN "ok" ELSE "failed"]
       IN
       /\ createRes' = [createRes EXCEPT ![c] = res]
       /\ storeIndexes' = IF ok THEN storeIndexes \cup {name} ELSE storeIndexes
       /\ promise' = [promise EXCEPT ![c] =
             IF @.state # "pending" THEN @
             ELSE IF ~ok THEN CreatesCatch(StoreError("createIndex", name))
             ELSE IF \A i \in DOMAIN res : res[i] = "ok"
             THEN Resolved(ListVal([i \in DOMAIN createIssued[c] |->
                                       createIssued[c][i].options.name]))
             ELSE @]
    /\ UNCHANGED <<facade, storeDocs, invoked, existsRes, createIssued, instr, docReqs>>

(***************************************************************************)
(* Instrumentation: _createTimer, the DebugTimer it returns, _logDebug.    *)
(* Durations are not modelled: a record is its category, name, message and *)
(* error.                                                                  *)
(***************************************************************************)
createTimer(name) ==
    [created |-> TRUE, category |-> "mongo", name |-> name, message |-> <<>>,
     stops |-> 0, errors |-> 0]

\* timer.stop() and timer.error(message): the timer afterwards, and the record
\* its completion hook is called with
Stopped(t) == [t EXCEPT !.stops = @ + 1]
Errored(t) == [t EXCEPT !.errors = @ + 1]
StopRecord(t) ==
    [category |-> t.category, name |-> t.name, message |-> t.message, error |-> Undefined]
ErrorRecord(t, message) ==
    [category |-> t.category, name |-> t.name, message |-> t.message, error |-> message]

\* `this._debugger.log` exists
HasLog(d) == d \in {"sinkA", "sinkB"}

\* _logDebug(data): the records delivered so far, and then
LogDebugToFirstSink(log, data) ==
    Append(log, [sink |-> "sinkA", data |-> data])
LogDebug(log, data) ==
    IF debugger = Null \/ ~HasLog(debugger)
    THEN log
    ELSE Append(log, [sink |-> debugger, data |-> data])

(***************************************************************************)
(* The single-request operations.  Each sends one request to the store;    *)
(* the store fulfils it with a result or rejects it with a failure value.  *)
(***************************************************************************)
Filter == [tag |-> "a"]

\* JSON.stringify of the values the operations put into timer messages: a
\* property whose value is undefined is left out
Json(v) ==
    CASE v.t = "data" ->
            (IF v.id # Undefined THEN <<"id:", v.id>> ELSE <<>>)
               \o (IF v.pk # Undefined THEN <<"_id:", v.pk>> ELSE <<>>)
      [] v.t = "options" ->
            IF ~v.given THEN <<Undefined>>
            ELSE IF v.returnOriginal # Undefined
            THEN <<"returnOriginal:", v.returnOriginal>> ELSE <<"{}">>
      [] v.t = "filter" -> <<"tag:", v.tag>>
      [] v.t = "id" -> <<v.id>>
      [] OTHER -> <<Undefined>>

FilterArg == [t |-> "filter", tag |-> Filter.tag]
NoOptions == [t |-> "options", given |-> FALSE, returnOriginal |-> Undefined]

\* the documents insertOne is called with: `pk` is the _id property
InsertData == {[t |-> "data", id |-> i, pk |-> Undefined] : i \in {Undefined, "", "X"}}
UpdateData == [t |-> "data", id |-> Undefined, pk |-> Undefined]
OptionsArgs ==
    {NoOptions} \cup
    {[t |-> "options", given |-> TRUE, returnOriginal |-> r] :
        r \in {Undefined, "true", "false"}}

\* the failure values the store may reject a request with
Failures(request) ==
    {StoreError(request, "users"), NullVal} \cup
    (IF request = "insertOne"
     THEN {DuplicateKey("_id_"), DuplicateKey("email_1")} ELSE {})

\* the results the store may fulfil a request with
Results(request, reqArgs) ==
    CASE request = "insertOne" ->
            {[t |-> "insertResult", ops |-> <<reqArgs>>], [t |-> "insertResult", ops |-> <<>>]}
      [] request = "findOneAndUpdate" ->
            {IF reqArgs.returnOriginal = "true" THEN DocVal("before") ELSE DocVal("after")}
      [] request = "findOne" -> {DocVal("X"), NullVal}
      [] request = "update" -> {NumVal(1)}
      [] request = "remove" -> {NumVal(0), NumVal(1)}
      [] request = "count" -> {NumVal(0), NumVal(2)}
      [] OTHER -> {NullVal}

\* the operation's method body up to the store request: its timer, and the
\* request, or the TypeError of calling a method of the null _collection
Begin(c, name, t, request, reqArgs, callArgs) ==
    /\ Invoke(c, name)
    /\ timer' = [timer EXCEPT ![c] = t]
    /\ args' = [args EXCEPT ![c] = callArgs]
    /\ IF collection = Null
       THEN /\ promise' = [promise EXCEPT ![c] = Rejected(TypeErrorVal)]
            /\ UNCHANGED storeReq
       ELSE /\ storeReq' = [storeReq EXCEPT ![c] =
                  <<[name |-> request, args |-> reqArgs, st |-> "pending", result |-> NoVal]>>]
            /\ UNCHANGED promise
    /\ UNCHANGED <<facade, store, records, chain, idxReqs>>

\* the store settles the request of call c, and the callback leaves the
\* call's promise as p, its timer as t and its delivered records as log
Settle(c, name, ok, v, p, t, log) ==
    /\ c \in 1..nCalls
    /\ op[c] = name
    /\ Len(storeReq[c]) = 1
    /\ storeReq[c][1].st = "pending"
    /\ v \in (IF ok THEN Results(storeReq[c][1].name, storeReq[c][1].args)
                    ELSE Failures(storeReq[c][1].name))
    /\ storeReq' = [storeReq EXCEPT ![c][1].st = IF ok THEN "ok" ELSE "failed",
                                    ![c][1].result = v]
    /\ promise' = [promise EXCEPT ![c] = p]
    /\ timer' = [timer EXCEPT ![c] = t]
    /\ records' = [records EXCEPT ![c] = log]
    /\ UNCHANGED <<facade, store, invoked, args, chain, idxReqs>>

\* the shared shape of the callbacks: then stops the timer and resolves with
\* `value`; catch reads error.message, which throws for a null failure value
\* before the timer or the promise is touched
ThenCatch(c, name, ok, v, value) ==
    IF ok
    THEN Settle(c, name, ok, v, Resolved(value), Stopped(timer[c]),
                LogDebug(records[c], StopRecord(timer[c])))
    ELSE IF v = NullVal
    THEN Settle(c, name, ok, v, promise[c], timer[c], records[c])
    ELSE Settle(c, name, ok, v, Rejected(v), Errored(timer[c]),
                LogDebug(records[c], ErrorRecord(timer[c], v.message)))

(***************************************************************************)
(* insertOne(data)                                                         *)
(***************************************************************************)
\* `if (data.id) data._id = data.id`
WithPrimaryKey(data) == IF Truthy(data.id) THEN [data EXCEPT !.pk = data.id] ELSE data

\* the error insertOne fails with for the truthy failure value `error`
insertOneErrorPassThrough(error, data) == error
insertOneError(error, data) ==
    IF Truthy(error.code) /\ error.code = "11000"
    THEN ModelError(<<"record with id = ", data.id, " already exists">>, "ALREADY_EXISTS")
    ELSE error

\* the value insertOne resolves with
insertOneValue(result) == IF Len(result.ops) > 0 THEN DocVal(result.ops[1]) ELSE NullVal

\* every value the store may settle an insertOne request with
InsertOutcomes ==
    UNION {Results("insertOne", WithPrimaryKey(d)) : d \in InsertData}
       \cup Failures("insertOne")

insertOne(c, data) ==
    LET d == WithPrimaryKey(data) IN
    /\ c \in Calls
    /\ Begin(c, "insertOne",
          [createTimer("insertOne") EXCEPT
              !.message = <<"db.", collectionName, ".insert(">> \o Json(d) \o <<")">>],
          "insertOne", d, d)

insertOneSettles(c, ok, v) ==
    /\ c \in Calls
    /\ IF ok
       THEN Settle(c, "insertOne", ok, v, Resolved(insertOneValue(v)), Stopped(timer[c]),
                   LogDebug(records[c], StopRecord(timer[c])))
       ELSE IF v = NullVal
       THEN Settle(c, "insertOne", ok, v, promise[c], timer[c], records[c])
       ELSE LET e == insertOneError(v, args[c]) IN
            Settle(c, "insertOne", ok, v, Rejected(e), Errored(timer[c]),
                   LogDebug(records[c], ErrorRecord(timer[c], e.message)))

(***************************************************************************)
(* findOneAndUpdate(filter, update, options)                               *)
(***************************************************************************)
OptionsAsGiven(options) == options
DefaultedOptions(options) ==
    IF ~options.given
    THEN [t |-> "options", given |-> TRUE, returnOriginal |-> "false"]
    ELSE IF options.returnOriginal = Undefined
    THEN [options EXCEPT !.returnOriginal = "false"]
    ELSE options

findOneAndUpdate(c, options) ==
    LET o == DefaultedOptions(options) IN
    /\ c \in Calls
    /\ Begin(c, "findOneAndUpdate",
          [createTimer("findOneAndUpdate") EXCEPT
              !.message = <<"filter=">> \o Json(FilterArg) \o <<" update=">>
                             \o Json(UpdateData) \o <<" options=">> \o Json(o)],
          "findOneAndUpdate", o, options)

findOneAndUpdateSettles(c, ok, v) ==
    /\ c \in Calls
    /\ ThenCatch(c, "findOneAndUpdate", ok, v, v)

(***************************************************************************)
(* findOne(query, options), findOneById(id, options)                       *)
(***************************************************************************)
findOne(c) ==
    /\ c \in Calls
    /\ Begin(c, "findOne",
          [createTimer("findOne") EXCEPT
              !.message = <<"query=">> \o Json(FilterArg) \o <<" options=">> \o Json(NoOptions)],
          "findOne", FilterArg, FilterArg)

findOneSettles(c, ok, v) ==
    /\ c \in Calls
    /\ ThenCatch(c, "findOne", ok, v, v)

findOneById(c, id) ==
    /\ c \in Calls
    /\ Begin(c, "findOneById",
          [createTimer("findOneById") EXCEPT
              !.message = <<"id=">> \o Json([t |-> "id", id |-> id])
                             \o <<" options=">> \o Json(NoOptions)],
          "findOne", [t |-> "data", id |-> Undefined, pk |-> id], [t |-> "id", id |-> id])

findOneByIdSettles(c, ok, v) ==
    /\ c \in Calls
    /\ ThenCatch(c, "findOneById", ok, v, v)

(***************************************************************************)
(* updateOne(filter, data, options), removeOne(filter, options),           *)
(* count(filter, options)                                                  *)
(***************************************************************************)
updateOne(c) ==
    /\ c \in Calls
    /\ Begin(c, "updateOne",
          [createTimer("updateOne") EXCEPT
              !.message = <<"filter=">> \o Json(FilterArg) \o <<" data=">>
                             \o Json(UpdateData) \o <<" options=">> \o Json(NoOptions)],
          "update", UpdateData, UpdateData)

\* resolves with the data it was called with, not with the store's result
updateOneSettles(c, ok, v) ==
    /\ c \in Calls
    /\ ThenCatch(c, "updateOne", ok, v, DocVal(args[c]))

removeOne(c) ==
    /\ c \in Calls
    /\ Begin(c, "removeOne",
          [createTimer("findOne") EXCEPT
              !.message = <<"filter=">> \o Json(FilterArg) \o <<" options=">> \o Json(NoOptions)],
          "remove", FilterArg, FilterArg)

removeOneSettles(c, ok, v) ==
    /\ c \in Calls
    /\ ThenCatch(c, "removeOne", ok, v, v)

count(c) ==
    /\ c \in Calls
    /\ Begin(c, "count",
          [createTimer("count") EXCEPT
              !.message = <<"filter=">> \o Json(FilterArg) \o <<" options=">> \o Json(NoOptions)],
          "count", FilterArg, FilterArg)

countSettles(c, ok, v) ==
    /\ c \in Calls
    /\ ThenCatch(c, "count", ok, v, v)

(***************************************************************************)
(* aggregate(pipeline, options): stops its timer at once and returns the   *)
(* store's cursor, or throws the TypeError of the null _collection.        *)
(***************************************************************************)
aggregate(c) ==
    LET t == [createTimer("aggregate") EXCEPT
                 !.message = <<"pipeline=">> \o Json(FilterArg)
                                \o <<" options=">> \o Json(NoOptions)]
    IN
    /\ Invoke(c, "aggregate")
    /\ timer' = [timer EXCEPT ![c] = Stopped(t)]
    /\ records' = [records EXCEPT ![c] = LogDebug(@, StopRecord(t))]
    /\ promise' = [promise EXCEPT ![c] =
                     IF collection = Null THEN Threw(TypeErrorVal)
                     ELSE Returned([t |-> "cursor"])]
    /\ UNCHANGED <<facade, store, args, storeReq, chain, idxReqs>>

(***************************************************************************)
(* find(filter, fields, sort, limit, offset, options) and the              *)
(* FindCursorChain it returns.  find passes the chain the collection, the  *)
(* filter and the fields only; sort, limit and offset reach the chain      *)
(* through its own mutators.                                               *)
(***************************************************************************)
Min(a, b) == IF a < b THEN a ELSE b

\* the documents of the collection that match the filter, in store order
RECURSIVE Matching(_, _)
Matching(docs, filter) ==
    IF docs = <<>> THEN <<>>
    ELSE (IF Head(docs).tag = filter.tag THEN <<Head(docs)>> ELSE <<>>)
            \o Matching(Tail(docs), filter)

\* cursor.count(): the documents matching the filter, whatever the page
CursorCount(ch) == Len(Matching(storeDocs, ch.filter))

\* cursor.toArray(): the page of the matching documents; limit 0 is no limit
CursorToArray(ch) ==
    LET m == Matching(storeDocs, ch.filter)
        last == IF ch.limit = 0 THEN Len(m) ELSE Min(Len(m), ch.skip + ch.limit)
    IN SubSeq(m, ch.skip + 1, last)

NewChain(filter) ==
    [built |-> TRUE, filter |-> filter, limit |-> 0, skip |-> 0, executed |-> FALSE]

find(c, limit, offset) ==
    /\ Invoke(c, "find")
    /\ timer' = [timer EXCEPT ![c] = createTimer("find")]
    /\ chain' = [chain EXCEPT ![c] = NewChain(Filter)]
    /\ UNCHANGED <<facade, store, promise, records, args, storeReq, idxReqs>>

\* chain.limit(n), chain.skip(n)
ChainLimit(c, n) ==
    /\ c \in 1..nCalls
    /\ chain[c].built /\ ~chain[c].executed
    /\ chain' = [chain EXCEPT ![c].limit = n]
    /\ UNCHANGED <<facade, store, invoked, promise, instr, args, storeReq, idxReqs>>

ChainSkip(c, n) ==
    /\ c \in 1..nCalls
    /\ chain[c].built /\ ~chain[c].executed
    /\ chain' = [chain EXCEPT ![c].skip = n]
    /\ UNCHANGED <<facade, store, invoked, promise, instr, args, storeReq, idxReqs>>

\* the message the chain hands to the onExec hook
DebugMessage(ch) ==
    <<"find tag:", ch.filter.tag, " limit/skip:", ToString(ch.limit), ToString(ch.skip)>>

\* the onExec hook of find: what the timer has done before the requests settle
ExecTimer(t) == Stopped(t)

\* chain.exec(): builds the cursor and calls the onExec hook find registered,
\* which stops the timer and sends count() and toArray() together
ChainExec(c) ==
    /\ c \in 1..nCalls
    /\ chain[c].built /\ ~chain[c].executed
    /\ chain' = [chain EXCEPT ![c].executed = TRUE]
    /\ IF handle[c] = Null
       THEN /\ promise' = [promise EXCEPT ![c] = Threw(TypeErrorVal)]
            /\ UNCHANGED <<timer, records, storeReq>>
       ELSE LET t == [timer[c] EXCEPT !.message = DebugMessage(chain[c])] IN
            /\ timer' = [timer EXCEPT ![c] = ExecTimer(t)]
            /\ records' = [records EXCEPT ![c] = LogDebug(@, StopRecord(t))]
            /\ storeReq' = [storeReq EXCEPT ![c] =
                  << [name |-> "count", args |-> chain[c], st |-> "pending", result |-> NoVal],
                     [name |-> "toArray", args |-> chain[c], st |-> "pending", result |-> NoVal] >>]
            /\ UNCHANGED promise
    /\ UNCHANGED <<facade, store, invoked, args, idxReqs>>

\* the page find resolves with, from the results of count() and toArray()
PageResultOfDocs(data) == [t |-> "page", total |-> Len(data[2].v), docs |-> data[2].v]
PageResult(data) == [t |-> "page", total |-> data[1].v, docs |-> data[2].v]

\* the catch-callback of Promise.all([count, toArray]): what the promise becomes
FindCatchSwallowed(error) == Pending
FindCatch(error) == Rejected(error)

\* the store settles request i (1: count, 2: toArray) of the find call c
FindSettles(c, i, ok) ==
    /\ c \in 1..nCalls
    /\ op[c] = "find"
    /\ i \in DOMAIN storeReq[c]
    /\ storeReq[c][i].st = "pending"
    /\ LET ch == storeReq[c][i].args
           v == IF ~ok THEN StoreError(storeReq[c][i].name, handle[c])
                ELSE IF i = 1 THEN NumVal(CursorCount(ch))
                ELSE ListVal(CursorToArray(ch))
           reqs == [storeReq[c] EXCEPT ![i].st = IF ok THEN "ok" ELSE "failed",
                                       ![i].result = v]
           rejectedBefore == \E k \in DOMAIN storeReq[c] : storeReq[c][k].st = "failed"
       IN
       /\ storeReq' = [storeReq EXCEPT ![c] = reqs]
       /\ IF rejectedBefore
          THEN UNCHANGED <<promise, timer, records>>
          ELSE IF ~ok
          THEN /\ promise' = [promise EXCEPT ![c] = FindCatch(v)]
               /\ timer' = [timer EXCEPT ![c] = Errored(@)]
               /\ records' = [records EXCEPT ![c] =
                                LogDebug(@, ErrorRecord(timer[c], v.message))]
          ELSE IF \A k \in DOMAIN reqs : reqs[k].st = "ok"
          THEN /\ promise' = [promise EXCEPT ![c] =
                                Resolved(PageResult([k \in DOMAIN reqs |-> reqs[k].result]))]
               /\ UNCHANGED <<timer, records>>
          ELSE UNCHANGED <<promise, timer, records>>
    /\ UNCHANGED <<facade, store, invoked, args, chain, idxReqs>>

(***************************************************************************)
(* The index synchronizer against a store that holds the first m of the    *)
(* declared indexes, for every m; other contents arise as calls create.    *)
(***************************************************************************)
InitIdx ==
    /\ constructor
    /\ storeIndexes \in {DeclNames(m) : m \in 0..MaxIdx}
    /\ storeDocs = <<>>
    /\ InitCalls

NextIdx ==
    \/ init
    \/ \E c \in Calls : ensureIndexes(c)
    \/ \E c \in Calls, k \in 1..MaxIdx, ok \in BOOLEAN : IndexExistsSettles(c, k, ok)
    \/ \E c \in Calls, j \in 1..MaxIdx, ok \in BOOLEAN : CreateIndexSettles(c, j, ok)

SpecIdx == InitIdx /\ [][NextIdx]_vars

(***************************************************************************)
(* The single-request operations, with the sink changing at any time.      *)
(***************************************************************************)
InitCrud ==
    /\ constructor
    /\ indexes.isNull
    /\ storeIndexes = {}
    /\ storeDocs = <<>>
    /\ InitCalls

NextCrud ==
    \/ init
    \/ \E d \in Sinks \cup {Null} : setDebugger(d)
    \/ \E c \in 1..MaxOps, data \in InsertData : insertOne(c, data)
    \/ \E c \in 1..MaxOps, options \in OptionsArgs : findOneAndUpdate(c, options)
    \/ \E c \in 1..MaxOps : findOne(c)
    \/ \E c \in 1..MaxOps : findOneById(c, "X")
    \/ \E c \in 1..MaxOps : updateOne(c)
    \/ \E c \in 1..MaxOps : removeOne(c)
    \/ \E c \in 1..MaxOps : count(c)
    \/ \E c \in 1..MaxOps : aggregate(c)
    \/ \E c \in 1..MaxOps, ok \in BOOLEAN, v \in InsertOutcomes : insertOneSettles(c, ok, v)
    \/ \E c \in 1..MaxOps, ok \in BOOLEAN,
          v \in {DocVal("before"), DocVal("after")} \cup Failures("findOneAndUpdate") :
          findOneAndUpdateSettles(c, ok, v)
    \/ \E c \in 1..MaxOps, ok \in BOOLEAN, v \in Results("findOne", FilterArg) \cup Failures("findOne") :
          findOneSettles(c, ok, v)
    \/ \E c \in 1..MaxOps, ok \in BOOLEAN, v \in Results("findOne", FilterArg) \cup Failures("findOne") :
          findOneByIdSettles(c, ok, v)
    \/ \E c \in 1..MaxOps, ok \in BOOLEAN, v \in Results("update", UpdateData) \cup Failures("update") :
          updateOneSettles(c, ok, v)
    \/ \E c \in 1..MaxOps, ok \in BOOLEAN, v \in Results("remove", FilterArg) \cup Failures("remove") :
          removeOneSettles(c, ok, v)
    \/ \E c \in 1..MaxOps, ok \in BOOLEAN, v \in Results("count", FilterArg) \cup Failures("count") :
          countSettles(c, ok, v)

SpecCrud == InitCrud /\ [][NextCrud]_vars

(***************************************************************************)
(* find and its chain, over every small collection of documents.           *)
(***************************************************************************)
Tags == {"a", "b"}
Collections ==
    UNION {[1..n -> Tags] : n \in 0..MaxDocs}

InitFind ==
    /\ constructor
    /\ indexes.isNull
    /\ storeIndexes = {}
    /\ \E tags \in Collections :
          storeDocs = [i \in DOMAIN tags |-> [id |-> i, tag |-> tags[i]]]
    /\ InitCalls

NextFind ==
    \/ init
    \/ setDebugger("sinkA")
    \/ \E c \in 1..MaxOps, limit \in 0..MaxDocs, offset \in 0..1 : find(c, limit, offset)
    \/ \E c \in 1..MaxOps, n \in 1..MaxDocs : ChainLimit(c, n)
    \/ \E c \in 1..MaxOps : ChainSkip(c, 1)
    \/ \E c \in 1..MaxOps : ChainExec(c)
    \/ \E c \in 1..MaxOps, i \in 1..2, ok \in BOOLEAN : FindSettles(c, i, ok)

SpecFind == InitFind /\ [][NextFind]_vars

(***************************************************************************)
(* Properties of ensureIndexes.                                            *)
(***************************************************************************)
EnsureCalls == {c \in 1..nCalls : op[c] = "ensureIndexes"}

\* every existence check of call c has returned true or false
ChecksAnswered(c) ==
    /\ existsRes[c] # <<>>
    /\ \A k \in DOMAIN existsRes[c] : existsRes[c][k] \in {"true", "false"}

\* the createIndex requests of call c that carry the k-th declaration's arguments
IssuedFor(c, k) ==
    {j \in DOMAIN createIssued[c] :
        createIssued[c][j] = [fields |-> indexes.list[k].fields,
                              options |-> indexes.list[k].options]}

\* the createIndex requests of call c for the index called `name`
IssuedForName(c, name) ==
    {j \in DOMAIN createIssued[c] : createIssued[c][j].options.name = name}

\* C1: once the existence checks of an ensureIndexes call have all returned,
\* the call has issued exactly one createIndex, with the declaration's own
\* fields and options, for each declaration whose check returned false, none
\* for a declaration whose check returned true, and no other createIndex.
C1_CreatesExactlyMissing ==
    \A c \in EnsureCalls :
        ChecksAnswered(c) =>
            /\ \A k \in DOMAIN existsRes[c] :
                  Cardinality(IssuedFor(c, k)) =
                      IF existsRes[c][k] = "false" THEN 1 ELSE 0
            /\ Len(createIssued[c]) =
                  Cardinality({k \in DOMAIN existsRes[c] : existsRes[c][k] = "false"})

C1_Witness ==
    \E c \in EnsureCalls :
        /\ ChecksAnswered(c)
        /\ \E k1, k2 \in DOMAIN existsRes[c] :
              existsRes[c][k1] = "true" /\ existsRes[c][k2] = "false"
        /\ Len(createIssued[c]) = 1

\* C2: an ensureIndexes call on a bound facade issues all its existence
\* checks in the invoking turn, and it has issued a createIndex only when none
\* of its existence checks is still unsettled.
C2_ChecksBarrier ==
    \A c \in EnsureCalls :
        /\ (handle[c] # Null /\ ~indexes.isNull) =>
              DOMAIN existsRes[c] = 1..Len(indexes.list)
        /\ createIssued[c] # <<>> =>
              \A k \in DOMAIN existsRes[c] : existsRes[c][k] # "pending"

C2_Witness ==
    \E c \in EnsureCalls :
        /\ Len(existsRes[c]) >= 2
        /\ createIssued[c] # <<>>
        /\ \E d \in EnsureCalls : d # c /\ \E k \in DOMAIN existsRes[d] :
              existsRes[d][k] = "pending"

\* C3 as claimed: over all invocations together, each declared index receives
\* at most one createIndex call.
C3_AtMostOneCreateInTotal ==
    \A name \in DeclNames(MaxIdx) :
        Cardinality({cj \in Calls \X (1..MaxIdx) :
                        cj[2] \in IssuedForName(cj[1], name)}) <= 1

\* C3 amended: each invocation issues at most one createIndex call per
\* declared index, and an invocation started after another one resolved issues
\* none for an index that one issued a createIndex for; overlapping
\* invocations may both issue one for the same index.
C3_AtMostOneCreatePerCall ==
    \A c \in EnsureCalls : \A name \in DeclNames(MaxIdx) :
        /\ Cardinality(IssuedForName(c, name)) <= 1
        /\ \A d \in resolvedAtStart[c] : op[d] = "ensureIndexes" =>
              IssuedForName(d, name) = {} \/ IssuedForName(c, name) = {}

C3_Witness ==
    \E c, d \in EnsureCalls : \E name \in DeclNames(MaxIdx) :
        /\ c # d
        /\ IssuedForName(c, name) # {}
        /\ IssuedForName(d, name) # {}

\* C5: the first createIndex failure of a call rejects its promise with that
\* failure's error, later failures leave the rejection as it is, nothing is
\* ever removed from the store, and an index whose creation succeeded is on
\* the store.
C5_FirstCreateFailureRejects ==
    [][ /\ storeIndexes \subseteq storeIndexes'
        /\ \A c \in Calls : \A j \in DOMAIN createRes[c] :
              /\ (createRes[c][j] = "pending" /\ createRes'[c][j] = "failed") =>
                    IF \A i \in DOMAIN createRes[c] : createRes[c][i] # "failed"
                    THEN promise'[c] = Rejected(StoreError("createIndex",
                                           createIssued[c][j].options.name))
                    ELSE promise'[c] = promise[c]
              /\ createRes'[c][j] = "ok" =>
                    createIssued[c][j].options.name \in storeIndexes' ]_vars

C5_Witness ==
    \E c \in EnsureCalls : \E i, j \in DOMAIN createRes[c] :
        /\ createRes[c][i] = "failed"
        /\ createRes[c][j] = "ok"
        /\ promise[c] = Rejected(StoreError("createIndex", createIssued[c][i].options.name))
        /\ createIssued[c][j].options.name \in storeIndexes

\* C10: an ensureIndexes call invoked right after an ensureIndexes call that
\* had resolved issues no createIndex; it resolves with the empty list once its
\* checks have answered, and rejects only when one of its checks fails.
C10_SecondCallCreatesNothing ==
    \A c \in EnsureCalls :
        (c > 1 /\ op[c - 1] = "ensureIndexes" /\ (c - 1) \in resolvedAtStart[c]) =>
            /\ createIssued[c] = <<>>
            /\ promise[c].state = "resolved" => promise[c].value = ListVal(<<>>)
            /\ promise[c].state = "rejected" =>
                  \E k \in DOMAIN existsRes[c] : existsRes[c][k] = "failed"
            /\ (ChecksAnswered(c) \/ existsRes[c] = <<>>) => promise[c].state = "resolved"

C10_Witness ==
    \E c \in EnsureCalls :
        /\ c > 1 /\ (c - 1) \in resolvedAtStart[c]
        /\ op[c - 1] = "ensureIndexes"
        /\ createIssued[c - 1] # <<>>
        /\ ChecksAnswered(c)
        /\ promise[c] = Resolved(ListVal(<<>>))


(***************************************************************************)
(* Properties of the instrumented operations.                              *)
(***************************************************************************)
Instrumented ==
    {"insertOne", "findOneAndUpdate", "findOne", "findOneById", "find",
     "updateOne", "removeOne", "count", "ensureIndexes"}

CrudOps ==
    {"insertOne", "findOneAndUpdate", "findOne", "findOneById", "find",
     "updateOne", "removeOne", "count", "aggregate"}

Settled(c) == promise[c].state \in {"resolved", "rejected"}

Contains(message, x) == \E i \in DOMAIN message : message[i] = x

\* the store rejected the request of the insertOne call c with `failure`
InsertFailedWith(c, failure) ==
    /\ op[c] = "insertOne"
    /\ Len(storeReq[c]) = 1
    /\ storeReq[c][1].st = "failed"
    /\ storeReq[c][1].result = failure

\* C4 as claimed: every operation that has resolved or rejected had exactly
\* one of its timer's stop and error invoked, and delivered at most that one
\* record.
C4_ExactlyOneStopOrError ==
    \A c \in 1..nCalls :
        (op[c] \in Instrumented /\ Settled(c)) =>
            /\ timer[c].created
            /\ timer[c].stops + timer[c].errors = 1
            /\ Len(records[c]) <= 1

\* C6 as claimed: an operation invoked while the collection handle is unbound
\* fails synchronously with an error whose code is NO_COLLECTION_NAME.
C6_UnboundFailsWithNoCollectionName ==
    \A c \in 1..nCalls :
        (op[c] \in CrudOps /\ handle[c] = Null) =>
            /\ promise[c].state = "threw"
            /\ promise[c].value.code = "NO_COLLECTION_NAME"

\* C7: when the store rejects the insertOne of a document carrying id = X with
\* the duplicate-key failure of the primary key, insertOne has rejected with a
\* ModelError whose code is ALREADY_EXISTS and whose message contains X; only
\* timer.error was invoked, once, and a record delivered for the call is the
\* error variant carrying that message.
C7_DuplicateKeyIsAlreadyExists ==
    \A c \in 1..nCalls :
        (InsertFailedWith(c, DuplicateKey("_id_")) /\ args[c].id # Undefined) =>
            /\ promise[c].state = "rejected"
            /\ promise[c].value.kind = "ModelError"
            /\ promise[c].value.code = "ALREADY_EXISTS"
            /\ Contains(promise[c].value.message, args[c].id)
            /\ timer[c].errors = 1 /\ timer[c].stops = 0
            /\ Len(records[c]) <= 1
            /\ \A i \in DOMAIN records[c] :
                  /\ records[c][i].data.error = promise[c].value.message
                  /\ records[c][i].data.name = "insertOne"

C7_Witness ==
    \E c \in 1..nCalls :
        /\ InsertFailedWith(c, DuplicateKey("_id_"))
        /\ args[c].id = "X"
        /\ promise[c].state = "rejected"
        /\ Len(records[c]) = 1

\* C8 as claimed: whatever failure value other than the primary key's
\* duplicate-key failure the store rejects insertOne with, insertOne has
\* rejected with that same value.
C8_OtherFailuresPassThrough ==
    \A c \in 1..nCalls : \A failure \in Failures("insertOne") \ {DuplicateKey("_id_")} :
        InsertFailedWith(c, failure) => promise[c] = Rejected(failure)

NoneDeclared == indexes.isNull \/ Len(indexes.list) = 0

\* every check of call c has answered, and answered true
AllExist(c) ==
    ChecksAnswered(c) /\ \A k \in DOMAIN existsRes[c] : existsRes[c][k] = "true"

\* C11: an ensureIndexes call invoked while no index is declared has, in the
\* invoking turn, resolved with the empty list and issued neither an
\* indexExists nor a createIndex call; a check answers false only for an index
\* that is not on the store, indexes never leave the store, and a call whose
\* checks all answered true (every declared index exists) has issued no
\* createIndex call and has resolved with the empty list.
C11_NothingToCreateResolvesEmpty ==
    [][ /\ storeIndexes \subseteq storeIndexes'
        /\ \A c \in Calls :
              /\ (op[c] = "none" /\ op'[c] = "ensureIndexes" /\ NoneDeclared) =>
                    /\ promise'[c] = Resolved(ListVal(<<>>))
                    /\ existsRes'[c] = <<>>
                    /\ createIssued'[c] = <<>>
              /\ \A k \in DOMAIN existsRes[c] :
                    (existsRes[c][k] = "pending" /\ existsRes'[c][k] = "false") =>
                        indexes.list[k].options.name \notin storeIndexes
              /\ AllExist(c)' =>
                    /\ createIssued'[c] = <<>>
                    /\ promise'[c] = Resolved(ListVal(<<>>)) ]_vars

C11_Witness ==
    \E c \in EnsureCalls :
        /\ Len(existsRes[c]) = MaxIdx
        /\ AllExist(c)
        /\ resolvedAtStart[c] = {}
        /\ createIssued[c] = <<>>
        /\ promise[c] = Resolved(ListVal(<<>>))

(***************************************************************************)
(* Further properties of find.                                             *)
(***************************************************************************)
FindCalls == {c \in 1..nCalls : op[c] = "find"}

\* the requests of call c the store has rejected
FailedReqs(c) == {k \in DOMAIN storeReq[c] : storeReq[c][k].st = "failed"}

Requested(name) == {c \in 1..nCalls : op[c] = name /\ Len(storeReq[c]) = 1}

\* C13: the options findOneAndUpdate sends to the store carry returnOriginal
\* = false when the caller gave no options or options without returnOriginal,
\* and the caller's own value when the caller set it to true or to false; with
\* returnOriginal = false the store's answer is the post-update document.
C13_ReturnOriginalDefaultsFalse ==
    \A c \in Requested("findOneAndUpdate") :
        LET sent == storeReq[c][1].args IN
        /\ sent.given
        /\ (~args[c].given \/ args[c].returnOriginal = Undefined) =>
              sent.returnOriginal = "false"
        /\ (args[c].given /\ args[c].returnOriginal \in {"true", "false"}) =>
              sent.returnOriginal = args[c].returnOriginal
        /\ promise[c].state = "resolved" =>
              promise[c].value =
                  IF sent.returnOriginal = "false" THEN DocVal("after") ELSE DocVal("before")

C13_Witness ==
    \E c \in Requested("findOneAndUpdate") :
        /\ ~args[c].given
        /\ storeReq[c][1].args.returnOriginal = "false"
        /\ promise[c] = Resolved(DocVal("after"))

(***************************************************************************)
(* Properties of init.                                                     *)
(***************************************************************************)
\* C14: as long as init has not returned the handle is unbound; an init call
\* on a facade without a collection name threw an error whose code is
\* NO_COLLECTION_NAME and left the handle unbound; an init call on a facade
\* with a name returned and, however many init calls preceded it, the handle
\* is bound to the collection of that name.
C14_InitBindsOrThrows ==
    /\ initResult.state \in {"none", "threw", "returned"}
    /\ initResult.state # "returned" => collection = Null
    /\ initResult.state = "threw" =>
          /\ ~Truthy(collectionName)
          /\ initResult.value.kind = "ModelError"
          /\ initResult.value.code = "NO_COLLECTION_NAME"
    /\ initResult.state = "returned" =>
          /\ Truthy(collectionName)
          /\ collection = collectionName
    /\ \A c \in 1..nCalls : handle[c] \in {Null, collectionName}

C14_Witness ==
    /\ initResult.state = "returned"
    /\ collection = "users"
    /\ \E c \in 1..nCalls : handle[c] = "users" /\ promise[c].state = "resolved"

(***************************************************************************)
(* Properties of the instrumentation.                                      *)
(***************************************************************************)
Timed ==
    {"insertOne", "findOneAndUpdate", "findOne", "findOneById", "find",
     "updateOne", "removeOne", "count"}

\* the requests of call c the store has not settled yet
InFlight(c) == {k \in DOMAIN storeReq[c] : storeReq[c][k].st = "pending"}

\* C15 as claimed: a call of a timed operation that has sent a request has
\* created its timer, and it has delivered a record only when it has sent its
\* requests and none of them is still in flight.
C15_NoRecordWhileInFlight ==
    \A c \in 1..nCalls : op[c] \in Timed =>
        /\ storeReq[c] # <<>> => timer[c].created
        /\ records[c] # <<>> => (storeReq[c] # <<>> /\ InFlight(c) = {})

\* the completions (stop or error) of the timer t so far
Completions(t) == t.stops + t.errors

\* C16: in every step, a record a call delivers goes to the sink installed in
\* that step, whatever sink was installed when the call began, and that sink
\* has a log method; records already delivered stay as they are; a timer that
\* completes delivers one record when such a sink is installed and none when
\* no sink, or a sink without log, is installed; and the call resolves when
\* its request is fulfilled and rejects when it fails with an error, whatever
\* the sink.
C16_RecordGoesToCurrentSink ==
    [][ \A c \in Calls :
          /\ Len(records'[c]) >= Len(records[c])
          /\ SubSeq(records'[c], 1, Len(records[c])) = records[c]
          /\ \A i \in DOMAIN records'[c] \ DOMAIN records[c] :
                /\ records'[c][i].sink = debugger
                /\ debugger' = debugger
                /\ HasLog(debugger)
          /\ Completions(timer'[c]) > Completions(timer[c]) =>
                Len(records'[c]) =
                    Len(records[c]) + (IF debugger # Null /\ HasLog(debugger) THEN 1 ELSE 0)
          /\ \A k \in DOMAIN storeReq[c] :
                (storeReq[c][k].st = "pending" /\ storeReq'[c][k].st # "pending") =>
                    IF storeReq'[c][k].st = "ok"
                    THEN promise'[c].state = "resolved"
                    ELSE storeReq'[c][k].result # NullVal => promise'[c].state = "rejected"
      ]_vars

C16_Witness ==
    \E c \in 1..nCalls :
        /\ op[c] \in Timed
        /\ Len(records[c]) = 1
        /\ records[c][1].sink = "sinkB"
        /\ debugger = "bare"
        /\ promise[c].state = "resolved"

(***************************************************************************)
(* Recovery of ensureIndexes after a failed creation.                      *)
(***************************************************************************)
DeclaredNames == {indexes.list[k].options.name : k \in 1..Len(indexes.list)}

\* call d has rejected because one of its createIndex requests failed
RejectedByCreate(d) ==
    /\ op[d] = "ensureIndexes"
    /\ promise[d].state = "rejected"
    /\ \E j \in DOMAIN createRes[d] : createRes[d][j] = "failed"

\* call c follows an ensureIndexes call that rejected on a failed creation
Recovery(c) ==
    /\ op[c] = "ensureIndexes"
    /\ \E d \in 1..(c - 1) : RejectedByCreate(d)

FailedChecks(c) == {k \in DOMAIN existsRes[c] : existsRes[c][k] = "failed"}

\* C18: the first existence check of an ensureIndexes call to fail rejects
\* the call with that check's error; a call one of whose checks has failed is
\* rejected, stays rejected with the same error, and has issued no
\* createIndex call, also when other checks of it answered false.
C18_FailedCheckRejectsWithoutCreate ==
    [][ \A c \in Calls :
          /\ \A k \in DOMAIN existsRes[c] :
                (existsRes[c][k] = "pending" /\ existsRes'[c][k] = "failed"
                    /\ FailedChecks(c) = {}) =>
                    promise'[c] = Rejected(StoreError("indexExists",
                                                      indexes.list[k].options.name))
          /\ FailedChecks(c) # {} => promise'[c] = promise[c]
          /\ (FailedChecks(c) # {})' =>
                /\ promise'[c].state = "rejected"
                /\ createIssued'[c] = <<>>
                /\ createRes'[c] = <<>>
      ]_vars

C18_Witness ==
    \E c \in EnsureCalls : \E k1, k2 \in DOMAIN existsRes[c] :
        /\ existsRes[c][k1] = "false"
        /\ existsRes[c][k2] = "failed"
        /\ promise[c] = Rejected(StoreError("indexExists", indexes.list[k2].options.name))
        /\ createIssued[c] = <<>>

(***************************************************************************)
(* Settlement of the returned promises.                                    *)
(***************************************************************************)
Promised ==
    {"insertOne", "findOneAndUpdate", "findOne", "findOneById", "updateOne",
     "removeOne", "count"}

\* C19 as claimed: a call of a promise-returning operation on an initialized
\* facade, all of whose store requests have settled, has settled its promise:
\* resolved when the request was fulfilled and rejected when the store
\* rejected it, with whatever value.
C19_SettledStoreSettlesPromise ==
    \A c \in 1..nCalls :
        (op[c] \in Promised /\ handle[c] # Null /\ storeReq[c] # <<>> /\ InFlight(c) = {}) =>
            promise[c].state =
                IF \A k \in DOMAIN storeReq[c] : storeReq[c][k].st = "ok"
                THEN "resolved" ELSE "rejected"

(***************************************************************************)
(* Attribution of the records.                                             *)
(***************************************************************************)
\* C20 as claimed: the timer of every call carries category mongo and the
\* name of the operation the call invoked, and so does every record the call
\* delivered.
C20_RecordNamesItsOperation ==
    \A c \in 1..nCalls :
        /\ timer[c].created =>
              /\ timer[c].category = "mongo"
              /\ timer[c].name = op[c]
        /\ \A i \in DOMAIN records[c] :
              /\ records[c][i].data.category = "mongo"
              /\ records[c][i].data.name = op[c]

=============================================================================
